---- MODULE Spec2Model ----
(***************************************************************************)
(* The per-frame simulation core of the zombie shooter: Game (session,     *)
(* spawn director, collision resolution), Player (shooting, ammunition,    *)
(* damage immunity), Zombie (AI state, melee), Bullet (expiry, hit test)   *)
(* and the stand-alone HealthSystem component.                             *)
(*                                                                         *)
(* Times are integer milliseconds.  `now` is the value Date.now() returns; *)
(* a frame's deltaTime*1000 is the `dt` of its input.  The physics engine  *)
(* and the geometry it produces are outside the repository: the distance   *)
(* tests of a frame (who is in range of whom) are inputs of that frame.    *)
(***************************************************************************)
EXTENDS Integers, Sequences, FiniteSets, TLC

VARIABLES
    now,                  \* Date.now()
    clockRunning,         \* THREE.Clock.running of Game.clock
    isGameStarted,        \* Game.isGameStarted
    gameRunning,          \* Game.gameRunning
    zombieSpawnTimer,     \* Game.zombieSpawnTimer
    zombieSpawnInterval,  \* Game.zombieSpawnInterval
    zombies,              \* Game.zombies: sequence of Zombie records
    startListener,        \* the once-listener click -> startGame is registered
    restartListener,      \* the once-listener click -> restartGame is registered
    player,               \* the Player object
    bulletBodies,         \* the bullet bodies registered in Game.world
    kills,                \* zombies an onlooker has counted dying this session
    tags,                 \* the zombies as an onlooker tells them apart
    hs,                   \* a stand-alone HealthSystem object
    calls,                \* the last two calls made on the health components
    deaths,               \* onDeath calls made by hs since it was new, reset or healed
    twins,                \* the HealthSystem objects of the two other modules
    zed,                  \* a stand-alone Zombie object
    zedLog,               \* the calls made on zed
    spawn,                \* a spawn placement and the player position it met
    hop,                  \* a stand-alone player body and its jump state
    frame                 \* what the last Game handler did (its observable calls)

vars == <<now, clockRunning, isGameStarted, gameRunning, zombieSpawnTimer,
          zombieSpawnInterval, zombies, startListener, restartListener,
          player, bulletBodies, kills, tags, hs, calls, deaths, twins, zed, zedLog, spawn, hop,
          frame>>

gameVars == <<clockRunning, isGameStarted, gameRunning, zombieSpawnTimer,
              zombieSpawnInterval, zombies, startListener, restartListener,
              bulletBodies, kills, tags, frame>>

\* The stand-alone objects the component harnesses call
healthVars == <<hs, calls, deaths, twins>>
zedVars == <<zed, zedLog>>

\* Everything update() may touch: the simulation state the session freezes.
simVars == <<zombieSpawnTimer, zombieSpawnInterval, zombies, player>>

----------------------------------------------------------------------------
(* Program constants.                                                      *)

maxZombies == 10
initialSpawnInterval == 3000
minSpawnInterval == 1000
spawnIntervalStep == 50
initialZombies == 3
defaultMaxHealth == 100
damageImmunityDuration == 1000
damageImmunityTime == 1000
fireRate == 200
maxAmmo == 30
bulletDamage == 25
bulletLifeTime == 3000
zombieMaxHealth == 100
attackCooldown == 1500
attackDamage == 10
pathfindingInterval == 100
speed == 3
attackRange == 2
zombieMass == 70
stuckTimeout == 2000
spawnInnerRadius == 20
spawnRadiusSpread == 30
killCountBase == 10
jumpForce == 8
gravity == 9820
stepsPerSecond == 60

(* Bounds of the model.                                                    *)

\* Date.now() at page load is an epoch time far above every cooldown of the
\* program; the model starts the clock EpochWindows immunity windows after 0.
EpochWindows == 2
Epoch == EpochWindows * damageImmunityDuration

Max(a, b) == IF a >= b THEN a ELSE b
Min(a, b) == IF a <= b THEN a ELSE b

----------------------------------------------------------------------------
(* HealthSystem                                                            *)

HealthSystem_new(maxHealth) ==
    [maxHealth |-> maxHealth, currentHealth |-> maxHealth, lastDamageTime |-> 0]

\* isImmune(): the immunity window test shared by takeDamage
HealthSystem_isImmune(h, currentTime) ==
    currentTime - h.lastDamageTime < damageImmunityDuration

\* Mutant: takeDamage that does not record the time of the hit
HealthSystem_takeDamageNoStamp(h, amount, currentTime) ==
    IF HealthSystem_isImmune(h, currentTime)
    THEN h
    ELSE [h EXCEPT !.currentHealth = Max(0, h.currentHealth - amount)]

\* Mutant: takeDamage that records the time of a blocked call
HealthSystem_takeDamageStampBlocked(h, amount, currentTime) ==
    IF HealthSystem_isImmune(h, currentTime)
    THEN [h EXCEPT !.lastDamageTime = currentTime]
    ELSE [h EXCEPT !.currentHealth = Max(0, h.currentHealth - amount),
                   !.lastDamageTime = currentTime]

\* takeDamage(amount) called at Date.now() = currentTime: the object afterwards
HealthSystem_takeDamage(h, amount, currentTime) ==
    IF HealthSystem_isImmune(h, currentTime)
    THEN h
    ELSE [h EXCEPT !.currentHealth = Max(0, h.currentHealth - amount),
                   !.lastDamageTime = currentTime]

\* the boolean takeDamage returns: TRUE when the damage was applied
HealthSystem_takeDamageResult(h, amount, currentTime) ==
    ~HealthSystem_isImmune(h, currentTime)

\* the callbacks takeDamage invokes, when they are installed
HealthSystem_takeDamageCallbacks(h, amount, currentTime) ==
    IF HealthSystem_isImmune(h, currentTime)
    THEN [onDamageBlocked |-> TRUE, onHealthChanged |-> FALSE, onDeath |-> FALSE]
    ELSE [onDamageBlocked |-> FALSE, onHealthChanged |-> TRUE,
          onDeath |-> Max(0, h.currentHealth - amount) <= 0]

HealthSystem_heal(h, amount) ==
    [h EXCEPT !.currentHealth = Min(h.maxHealth, h.currentHealth + amount)]

\* Mutant: reset that leaves the immunity timer running
HealthSystem_resetKeepStamp(h) == [h EXCEPT !.currentHealth = h.maxHealth]

\* HealthSystem.reset()
HealthSystem_reset(h) ==
    [h EXCEPT !.currentHealth = h.maxHealth, !.lastDamageTime = 0]

----------------------------------------------------------------------------
(* The HealthSystem classes of src/unnamed/part_001 and of utils/Utils.js  *)

Part001_HealthSystem_new(maxHealth) ==
    [maxHealth |-> maxHealth, currentHealth |-> maxHealth, lastDamageTime |-> 0,
     damageImmunityDuration |-> 1000]

\* takeDamage(amount) at Date.now() = currentTime: the object afterwards
Part001_HealthSystem_takeDamage(h, amount, currentTime) ==
    IF currentTime - h.lastDamageTime < h.damageImmunityDuration
    THEN h
    ELSE [h EXCEPT !.currentHealth = Max(0, h.currentHealth - amount),
                   !.lastDamageTime = currentTime]

\* the boolean it returns
Part001_HealthSystem_takeDamageResult(h, amount, currentTime) ==
    ~(currentTime - h.lastDamageTime < h.damageImmunityDuration)

Part001_HealthSystem_heal(h, amount) ==
    [h EXCEPT !.currentHealth = Min(h.maxHealth, h.currentHealth + amount)]

Part001_HealthSystem_reset(h) ==
    [h EXCEPT !.currentHealth = h.maxHealth, !.lastDamageTime = 0]

Utils_HealthSystem_new(maxHealth) ==
    [maxHealth |-> maxHealth, currentHealth |-> maxHealth, lastDamageTime |-> 0,
     damageImmunityDuration |-> 1000]

\* Mutant: the Utils takeDamage with <= in the immunity test
Utils_HealthSystem_takeDamageInclusive(h, amount, currentTime) ==
    IF currentTime - h.lastDamageTime <= h.damageImmunityDuration
    THEN h
    ELSE [h EXCEPT !.currentHealth = Max(0, h.currentHealth - amount),
                   !.lastDamageTime = currentTime]

\* takeDamage(amount) at Date.now() = currentTime: the object afterwards (this
\* class has no onDamageBlocked callback)
Utils_HealthSystem_takeDamage(h, amount, currentTime) ==
    IF currentTime - h.lastDamageTime < h.damageImmunityDuration
    THEN h
    ELSE [h EXCEPT !.currentHealth = Max(0, h.currentHealth - amount),
                   !.lastDamageTime = currentTime]

\* the boolean it returns
Utils_HealthSystem_takeDamageResult(h, amount, currentTime) ==
    ~(currentTime - h.lastDamageTime < h.damageImmunityDuration)

Utils_HealthSystem_heal(h, amount) ==
    [h EXCEPT !.currentHealth = Min(h.maxHealth, h.currentHealth + amount)]

Utils_HealthSystem_reset(h) ==
    [h EXCEPT !.currentHealth = h.maxHealth, !.lastDamageTime = 0]

----------------------------------------------------------------------------
(* Player                                                                  *)
(* Health, ammunition, bullets and the two timestamps; movement and the     *)
(* camera do not touch them.                                                *)

Player_new ==
    [health |-> 100, maxHealth |-> 100, ammo |-> maxAmmo, maxAmmo |-> maxAmmo,
     bullets |-> <<>>, lastShotTime |-> 0, lastDamageTime |-> 0]

\* Player.takeDamage(amount) called at Date.now() = currentTime
Player_takeDamage(p, amount, currentTime) ==
    IF currentTime - p.lastDamageTime < damageImmunityTime
    THEN p
    ELSE [p EXCEPT !.health = Max(0, p.health - amount),
                   !.lastDamageTime = currentTime]

\* whether Player.takeDamage gets past its immunity check (and calls flashDamage)
Player_takeDamageApplied(p, currentTime) ==
    ~(currentTime - p.lastDamageTime < damageImmunityTime)

\* Player.reset()
Player_reset(p) ==
    [p EXCEPT !.health = p.maxHealth, !.ammo = p.maxAmmo, !.bullets = <<>>,
              !.lastDamageTime = 0, !.lastShotTime = 0]

\* Array.prototype.splice(k, 1) with a 1-based k; no effect past the end
Splice(s, k) ==
    IF k \in 1..Len(s)
    THEN SubSeq(s, 1, k - 1) \o SubSeq(s, k + 1, Len(s))
    ELSE s

----------------------------------------------------------------------------
(* Player: the body and the jump                                           *)
(* Heights are in thousandths of a unit, vertical velocities in thousandths *)
(* of a unit per second.  The ground's top face is at height 0 and the      *)
(* player's cylinder is 1.8 high, so its body rests at restHeight.          *)

\* gravity is in thousandths of a unit per second squared
startHeight == 1800
restHeight == 900
groundedHeight == 1500
\* the top face of a street barrier (a box 1.0 high standing on the ground)
obstacleTop == 1000

\* The player's body as the constructor leaves it.  jumped: the last update
\* triggered a jump; inAir: a jump was triggered and no contact of the body with
\* the ground has happened since; midAir: inAir when the last update ran;
\* floor: the height of the surface under the body; contact: the last physics
\* step reported a contact of the body with that surface (normal straight up);
\* jumpKey: keys.jump at the last update
Hop_new ==
    [y |-> startHeight, vy |-> 0, isGrounded |-> FALSE, jumped |-> FALSE,
     inAir |-> FALSE, midAir |-> FALSE, ticks |-> 0, floor |-> 0,
     contact |-> FALSE, jumpKey |-> FALSE]

\* world.fixedStep() on the player's body: one step of 1/60 s under gravity;
\* the surface under the body stops it at restHeight above that surface.  The
\* engine reports a contact (the collide event) when the body meets the
\* surface, and the collide listener then sets isGrounded.
World_stepPlayer(b) ==
    LET vy == b.vy - gravity \div stepsPerSecond
        y == b.y + vy \div stepsPerSecond
        rest == b.floor + restHeight
        touches == y <= rest
        meets == touches /\ b.y > rest
    IN  [b EXCEPT !.y = IF touches THEN rest ELSE y,
                  !.vy = IF touches THEN 0 ELSE vy,
                  !.contact = meets,
                  !.isGrounded = IF meets THEN TRUE ELSE b.isGrounded,
                  !.inAir = b.inAir /\ ~touches]

\* Player.updateMovement with keys.jump = jump: the height fallback of the
\* grounded flag, then the jump
Player_updateMovement(b, jump) ==
    LET grounded == b.isGrounded \/ b.y <= groundedHeight
    IN  IF jump /\ grounded
        THEN [b EXCEPT !.vy = jumpForce * 1000, !.isGrounded = FALSE,
                       !.jumped = TRUE, !.midAir = b.inAir, !.inAir = TRUE,
                       !.jumpKey = jump]
        ELSE [b EXCEPT !.isGrounded = grounded, !.jumped = FALSE,
                       !.midAir = b.inAir, !.jumpKey = jump]

\* Player.update(deltaTime): the grounded flag is cleared, then the movement
Player_updateBody(b, jump) ==
    Player_updateMovement([b EXCEPT !.isGrounded = FALSE], jump)

----------------------------------------------------------------------------
(* Bullet                                                                  *)

\* A bullet is fired at most once per frame, so createTime tells bullets (and
\* their bodies) apart.  fell: the body is below y = -10.
Bullet_new(currentTime) ==
    [createTime |-> currentTime, shouldBeRemoved |-> FALSE, fell |-> FALSE]

\* Bullet.onCollision: the body's collide event marks the bullet
Bullet_onCollision(b) == [b EXCEPT !.shouldBeRemoved = TRUE]

\* Bullet.shouldRemove() at Date.now() = currentTime
Bullet_shouldRemove(b, currentTime) ==
    b.shouldBeRemoved \/ currentTime - b.createTime > bulletLifeTime \/ b.fell

\* the bodies of the bullets of a collection
BulletIds(bs) == {bs[k].createTime : k \in 1..Len(bs)}

\* Bullet.setupPhysics: world.addBody
Bullet_setupPhysics(bodies, b) == bodies \cup {b.createTime}

\* Bullet.removeFromScene: world.removeBody (no effect on a body already removed)
Bullet_removeFromScene(bodies, b) == bodies \ {b.createTime}

\* Mutant: the fire-rate test with > for >=
Player_updateShootingLate(p, shoot, currentTime) ==
    IF shoot /\ currentTime - p.lastShotTime > fireRate /\ p.ammo > 0
    THEN [p EXCEPT !.bullets = Append(p.bullets, Bullet_new(currentTime)),
                   !.lastShotTime = currentTime,
                   !.ammo = p.ammo - 1]
    ELSE p

\* Mutant: shooting without the ammunition test
Player_updateShootingNoAmmoTest(p, shoot, currentTime) ==
    IF shoot /\ currentTime - p.lastShotTime >= fireRate
    THEN [p EXCEPT !.bullets = Append(p.bullets, Bullet_new(currentTime)),
                   !.lastShotTime = currentTime,
                   !.ammo = p.ammo - 1]
    ELSE p

\* Player.updateShooting() with keys.shoot = shoot; shoot() pushes one bullet
Player_updateShooting(p, shoot, currentTime) ==
    IF shoot /\ currentTime - p.lastShotTime >= fireRate /\ p.ammo > 0
    THEN [p EXCEPT !.bullets = Append(p.bullets, Bullet_new(currentTime)),
                   !.lastShotTime = currentTime,
                   !.ammo = p.ammo - 1]
    ELSE p

\* The forEach of Player.updateBullets from index k on: forEach visits the
\* indices 1..len it saw at the start and skips an index the array no longer has;
\* a splice at k moves the next bullet into k, which is not visited again.
RECURSIVE UpdateBulletsFrom(_, _, _, _)
UpdateBulletsFrom(bs, k, len, currentTime) ==
    IF k > len \/ k > Len(bs) THEN bs
    ELSE IF Bullet_shouldRemove(bs[k], currentTime)
         THEN UpdateBulletsFrom(Splice(bs, k), k + 1, len, currentTime)
         ELSE UpdateBulletsFrom(bs, k + 1, len, currentTime)

Player_updateBullets(p, currentTime) ==
    [p EXCEPT !.bullets = UpdateBulletsFrom(p.bullets, 1, Len(p.bullets), currentTime)]

\* The world after Player.shoot(): the new bullet's body is added
Player_shootBodies(bodies, before, after) ==
    IF Len(after.bullets) > Len(before.bullets)
    THEN Bullet_setupPhysics(bodies, after.bullets[Len(after.bullets)])
    ELSE bodies

\* The world after Player.updateBullets(): removeFromScene ran on each bullet
\* the loop spliced out (the visited bullet sits at the index it splices)
Player_updateBulletsBodies(bodies, before, after) ==
    bodies \ (BulletIds(before.bullets) \ BulletIds(after.bullets))

\* The world after Player.reset(): removeFromScene on every bullet of the collection
Player_resetBodies(bodies, p) == bodies \ BulletIds(p.bullets)

\* Player.update(deltaTime): shooting, then the bullets
Player_update(p, shoot, currentTime) ==
    Player_updateBullets(Player_updateShooting(p, shoot, currentTime), currentTime)

----------------------------------------------------------------------------
(* Zombie                                                                  *)
(* The record holds the fields the session logic reads; the body's position *)
(* and velocity belong to the physics engine and enter as frame inputs.     *)

\* The horizontal velocity the zombie last gave its body: a compass heading
\* (the signs of the x and z components) and a magnitude in tenths of a unit
\* per second.  A zero heading is the zero vector.
Rest == [heading |-> <<0, 0>>, tenths |-> 0]

\* the compass heading that stands for the direction to the target
TowardsTarget == <<1, 0>>

Zombie_new ==
    [health |-> zombieMaxHealth, state |-> "idle", lastAttackTime |-> 0,
     pathfindingTimer |-> 0, stuckTimer |-> 0, velocity |-> Rest,
     mass |-> zombieMass, target |-> FALSE]

\* Zombie.setTarget(target); target: the reference is not null
Zombie_setTarget(z, target) == [z EXCEPT !.target = target]

\* Mutant: die() that leaves the body its mass
Zombie_dieKeepMass(z) == [z EXCEPT !.state = "dead", !.velocity = Rest]

\* Zombie.die()
Zombie_die(z) == [z EXCEPT !.state = "dead", !.velocity = Rest, !.mass = 0]

\* Mutant: takeDamage that never calls die()
Zombie_takeDamageNoDie(z, amount) ==
    [z EXCEPT !.health = Max(0, z.health - amount)]

\* Zombie.takeDamage(amount): no immunity window
Zombie_takeDamage(z, amount) ==
    LET hit == [z EXCEPT !.health = Max(0, z.health - amount)]
    IN  IF hit.health <= 0 THEN Zombie_die(hit) ELSE hit

\* Zombie.moveTowardsTarget
Zombie_moveTowardsTarget(z) ==
    [z EXCEPT !.velocity = [heading |-> TowardsTarget, tenths |-> speed * 10]]

Sign(n) == IF n > 0 THEN 1 ELSE IF n < 0 THEN -1 ELSE 0

\* Zombie.unstuck(): draw holds the two Math.random() values in thousandths.
\* Vector3.normalize() leaves the zero vector as it is.
Zombie_unstuck(z, draw) ==
    LET heading == <<Sign((draw[1] - 500) * 2), Sign((draw[2] - 500) * 2)>>
    IN  [z EXCEPT !.velocity = IF heading = <<0, 0>> THEN Rest
                               ELSE [heading |-> heading, tenths |-> speed * 15]]

\* The stuck check of Zombie.updateAI; still: the zombie moved less than
\* movementThreshold since the last tick
Zombie_stuckCheck(z, dt, still, draw) ==
    IF still
    THEN LET timer == z.stuckTimer + dt
         IN  IF timer > stuckTimeout
             THEN [Zombie_unstuck(z, draw) EXCEPT !.stuckTimer = 0]
             ELSE [z EXCEPT !.stuckTimer = timer]
    ELSE [z EXCEPT !.stuckTimer = 0]

\* The distance test of Zombie.updateAI: Vector3.distanceTo between the
\* zombie group's position and the target's position, which are offset apart
\* (<<x, y, z>> in tenths of a unit); TRUE when distance <= attackRange
Zombie_inRange(offset) ==
    offset[1] * offset[1] + offset[2] * offset[2] + offset[3] * offset[3]
        <= (attackRange * 10) * (attackRange * 10)

\* Zombie.updateAI(deltaTime); inRange: distance <= attackRange
Zombie_updateAI(z, dt, inRange, still, draw) ==
    LET timer == z.pathfindingTimer + dt
        steered ==
            IF timer >= pathfindingInterval
            THEN IF inRange
                 THEN [z EXCEPT !.pathfindingTimer = 0, !.state = "attacking",
                                !.velocity = Rest]
                 ELSE Zombie_moveTowardsTarget(
                          [z EXCEPT !.pathfindingTimer = 0, !.state = "chasing"])
            ELSE [z EXCEPT !.pathfindingTimer = timer]
    IN  IF ~z.target THEN z
        ELSE Zombie_stuckCheck(steered, dt, still, draw)

\* Zombie.update(deltaTime)
Zombie_update(z, dt, inRange, still, draw) ==
    IF z.health <= 0 THEN [z EXCEPT !.state = "dead"]
    ELSE Zombie_updateAI(z, dt, inRange, still, draw)

Zombie_isDead(z) == z.state = "dead"

\* Mutant: canAttack without the state test
Zombie_canAttackAnyState(z, currentTime) ==
    currentTime - z.lastAttackTime >= attackCooldown

\* Mutant: canAttack without the cooldown test
Zombie_canAttackNoCooldown(z, currentTime) == z.state = "attacking"

\* Zombie.canAttack() at Date.now() = currentTime
Zombie_canAttack(z, currentTime) ==
    z.state = "attacking" /\ currentTime - z.lastAttackTime >= attackCooldown

Zombie_attack(z, currentTime) == [z EXCEPT !.lastAttackTime = currentTime]

----------------------------------------------------------------------------
(* Physics world: the collide events of one fixedStep()                    *)

\* world.fixedStep(): the bullets whose body collided (struck: their indices)
\* get Bullet.onCollision; fallen: the bullets whose body the step leaves below
\* y = -10
\* The categories of body a bullet's body can touch
BodyKinds == {"ground", "zombie", "building", "vegetation", "bullet", "player"}

\* COLLISION_MASKS.BULLET of the CollisionManager: the categories a projectile
\* is meant to accept
ProjectileMask == {"ground", "zombie", "building", "vegetation"}

\* a & b on the filter words that occur: -1 has every bit set
RECURSIVE BitAnd(_, _)
BitAnd(a, b) ==
    IF a = -1 THEN b
    ELSE IF b = -1 THEN a
    ELSE IF a = 0 \/ b = 0 THEN 0
    ELSE (a % 2) * (b % 2) + 2 * BitAnd(a \div 2, b \div 2)

\* new CANNON.Body({mass, shape, position, ...}) as every constructor of the
\* game calls it: none passes collisionFilterGroup or collisionFilterMask, and
\* CollisionManager.setBodyCollisionGroup is called nowhere, so a body of any
\* category keeps the engine's filter, group 1 and mask -1
Body_new(kind) ==
    [kind |-> kind, collisionFilterGroup |-> 1, collisionFilterMask |-> -1]

\* The world's filter test on a pair of bodies
World_canCollide(a, b) ==
    /\ BitAnd(a.collisionFilterGroup, b.collisionFilterMask) # 0
    /\ BitAnd(b.collisionFilterGroup, a.collisionFilterMask) # 0

\* touch: the <<bullet, category>> pairs whose shapes overlap in the step; the
\* bullets whose body gets a collide event
World_collideEvents(touch) ==
    {t[1] : t \in {u \in touch :
                      World_canCollide(Body_new("bullet"), Body_new(u[2]))}}

World_fixedStep(bs, struck, fallen) ==
    [k \in 1..Len(bs) |->
        LET b == IF k \in struck THEN Bullet_onCollision(bs[k]) ELSE bs[k]
        IN  IF k \in fallen THEN [b EXCEPT !.fell = TRUE] ELSE b]

----------------------------------------------------------------------------
(* Game                                                                    *)

\* Mutant: spawnZombies without the population test
RECURSIVE Game_spawnZombiesNoCap(_, _)
Game_spawnZombiesNoCap(zs, count) ==
    IF count > 0
    THEN Game_spawnZombiesNoCap(Append(zs, Zombie_setTarget(Zombie_new, TRUE)),
                                count - 1)
    ELSE zs

\* Game.spawnZombies(count)
RECURSIVE Game_spawnZombies(_, _)
Game_spawnZombies(zs, count) ==
    IF count > 0 /\ Len(zs) < maxZombies
    THEN Game_spawnZombies(Append(zs, Zombie_setTarget(Zombie_new, TRUE)),
                           count - 1)
    ELSE zs

\* The zombies.forEach of Game.update from index k on.  removed: how many
\* zombies the loop has spliced out, so that k + removed is the index the
\* visited zombie had when the loop began (the inputs name zombies by that index).
\* c = [zs, visits, pruned]: the zombies, the zombies update() was called on
\* and the zombies removeFromScene() was called on, both in call order and by
\* the index they had when the loop began.
RECURSIVE UpdateZombiesFrom(_, _, _, _, _, _)
UpdateZombiesFrom(c, k, len, removed, dt, in) ==
    IF k > len \/ k > Len(c.zs) THEN c
    ELSE LET z == Zombie_update(c.zs[k], dt, (k + removed) \in in.inRange,
                                (k + removed) \in in.still, in.draw)
             visits == Append(c.visits, k + removed)
         IN  IF Zombie_isDead(z)
             THEN UpdateZombiesFrom(
                      [zs |-> Splice(c.zs, k), visits |-> visits,
                       pruned |-> Append(c.pruned, k + removed)],
                      k + 1, len, removed + 1, dt, in)
             ELSE UpdateZombiesFrom(
                      [zs |-> [c.zs EXCEPT ![k] = z], visits |-> visits,
                       pruned |-> c.pruned],
                      k + 1, len, removed, dt, in)

\* Mutant: a zombie loop that updates every zombie and prunes none
Game_updateZombiesLoopKeepDead(zs, dt, in) ==
    [zs |-> [k \in 1..Len(zs) |->
                Zombie_update(zs[k], dt, k \in in.inRange, k \in in.still, in.draw)],
     visits |-> [k \in 1..Len(zs) |-> k],
     pruned |-> <<>>]

\* The zombie loop of Game.update; in: the frame's inputs (inRange, still and
\* draw are read)
Game_updateZombiesLoop(zs, dt, in) ==
    UpdateZombiesFrom([zs |-> zs, visits |-> <<>>, pruned |-> <<>>],
                      1, Len(zs), 0, dt, in)

\* the collection the loop leaves
Game_updateZombies(zs, dt, in) == Game_updateZombiesLoop(zs, dt, in).zs

\* Mutant: difficulty escalation without the floor test
Game_updateSpawningNoFloor(zs, timer, interval, dt) ==
    IF timer + dt >= interval
    THEN <<Game_spawnZombies(zs, 1), 0, interval - spawnIntervalStep>>
    ELSE <<zs, timer + dt, interval>>

\* Mutant: a spawn timer that waits, unchanged, while the population is full
Game_updateSpawningWaitAtCap(zs, timer, interval, dt) ==
    IF timer + dt >= interval /\ Len(zs) < maxZombies
    THEN <<Game_spawnZombies(zs, 1), 0,
           IF interval > minSpawnInterval THEN interval - spawnIntervalStep
                                          ELSE interval>>
    ELSE <<zs, timer + dt, interval>>

\* Mutant: difficulty escalation that lengthens the interval
Game_updateSpawningUp(zs, timer, interval, dt) ==
    IF timer + dt >= interval
    THEN <<Game_spawnZombies(zs, 1), 0,
           IF interval > minSpawnInterval THEN interval + spawnIntervalStep
                                          ELSE interval>>
    ELSE <<zs, timer + dt, interval>>

\* The spawn timer of Game.update: <<zombies, timer, interval>> afterwards
Game_updateSpawning(zs, timer, interval, dt) ==
    IF timer + dt >= interval
    THEN <<Game_spawnZombies(zs, 1), 0,
           IF interval > minSpawnInterval THEN interval - spawnIntervalStep
                                          ELSE interval>>
    ELSE <<zs, timer + dt, interval>>

\* The inner zombies.forEach of Game.handleBulletCollisions for the bullet
\* visited at index k (its index when the outer loop began: orig), from zombie
\* j on.  c = [bs, zs, removed, hits, bodies, bullet]: the bullets, the zombies,
\* how many bullets the loops have spliced out, the takeDamage calls this bullet
\* made, the bullet bodies in the world and the bullet the outer loop is visiting.
\* A hit runs removeFromScene on the visited bullet and splices index k.
\* dies: one entry per die() call, the state the zombie was in when called.
RECURSIVE BulletVsZombiesFrom(_, _, _, _, _)
BulletVsZombiesFrom(c, k, orig, j, hit) ==
    IF j > Len(c.zs) THEN c
    ELSE IF <<orig, j>> \in hit
         THEN BulletVsZombiesFrom(
                  [c EXCEPT
                     !.bs = Splice(c.bs, k),
                     !.zs = [c.zs EXCEPT ![j] = Zombie_takeDamage(c.zs[j], bulletDamage)],
                     !.removed = c.removed + (IF k <= Len(c.bs) THEN 1 ELSE 0),
                     !.hits = c.hits + 1,
                     !.dies = IF c.zs[j].health - bulletDamage <= 0
                              THEN Append(c.dies, c.zs[j].state)
                              ELSE c.dies,
                     !.bodies = Bullet_removeFromScene(c.bodies, c.bullet)],
                  k, orig, j + 1, hit)
         ELSE BulletVsZombiesFrom(c, k, orig, j + 1, hit)

\* The outer bullets.forEach of Game.handleBulletCollisions from index k on.
\* maxHits: the most takeDamage calls a single bullet has made so far.
RECURSIVE BulletCollisionsFrom(_, _, _, _, _)
BulletCollisionsFrom(c, k, len, maxHits, hit) ==
    IF k > len \/ k > Len(c.bs)
    THEN [bs |-> c.bs, zs |-> c.zs, maxHits |-> maxHits, bodies |-> c.bodies,
          dies |-> c.dies]
    ELSE LET d == BulletVsZombiesFrom([c EXCEPT !.hits = 0, !.bullet = c.bs[k]],
                                      k, k + c.removed, 1, hit)
         IN  BulletCollisionsFrom(d, k + 1, len, Max(maxHits, d.hits), hit)

\* Game.handleBulletCollisions(): hit is the set of <<bullet, zombie>> index
\* pairs for which bullet.checkCollision(zombie.getMesh()) is true
Game_handleBulletCollisions(bs, zs, bodies, hit) ==
    BulletCollisionsFrom([bs |-> bs, zs |-> zs, removed |-> 0, hits |-> 0,
                          bodies |-> bodies, bullet |-> Bullet_new(0),
                          dies |-> <<>>],
                         1, Len(bs), 0, hit)

\* Game.handleZombiePlayerCollisions() from zombie j on; near: the zombies
\* with isNearPlayer(player position, 2.0).  c = [zs, p, attacks, attackers];
\* attackers: one entry per player.takeDamage call, the health of the zombie
\* on whose behalf it was made
RECURSIVE ZombiePlayerFrom(_, _, _, _)
ZombiePlayerFrom(c, j, near, currentTime) ==
    IF j > Len(c.zs) THEN c
    ELSE IF j \in near /\ Zombie_canAttack(c.zs[j], currentTime)
         THEN ZombiePlayerFrom(
                  [zs |-> [c.zs EXCEPT ![j] = Zombie_attack(c.zs[j], currentTime)],
                   p |-> Player_takeDamage(c.p, attackDamage, currentTime),
                   attacks |-> c.attacks + 1,
                   attackers |-> Append(c.attackers, c.zs[j].health)],
                  j + 1, near, currentTime)
         ELSE ZombiePlayerFrom(c, j + 1, near, currentTime)

Game_handleZombiePlayerCollisions(zs, p, near, currentTime) ==
    ZombiePlayerFrom([zs |-> zs, p |-> p, attacks |-> 0, attackers |-> <<>>],
                     1, near, currentTime)

\* What a handler is observed to do: which handler ran, the bullets shoot()
\* pushed, the ammunition spent, the most zombie.takeDamage calls made by one
\* bullet, the zombie attack() calls, whether the spawn timer fired and how many
\* zombies it added, whether it shortened the spawn interval, and whether
\* gameOver() / restartGame() ran.  fireHeld: keys.shoot during the handler.
\* raised: restartGame() found the spawn interval below its initial value.
\* contact: the <<bullet, zombie>> collide events of the handler's physics step.
\* killCount: the getKillCount() that gameOver() put on the screen.
\* visits: the zombies the handler called update() on, in call order, by the
\* index they had in the collection when the handler began.
\* hit: the <<bullet, zombie>> pairs with checkCollision true in the handler's
\* collision pass; bulletsSeen: the bullets that pass began with; died: the
\* zombies die() moved to dead in the handler.
\* touch: the <<bullet, category>> pairs whose shapes overlapped in the physics
\* step.
\* pruned: the zombies the handler called removeFromScene() on, in call order,
\* by the index they had in the collection when the handler began.
\* dies: the die() calls of the handler, each by the state of its zombie.
\* near: the zombies with isNearPlayer in the handler's melee pass; attackers:
\* the player.takeDamage calls of that pass, each by the health of its zombie.
Observed(op) ==
    [op |-> op, fireHeld |-> FALSE, shots |-> 0, ammoUsed |-> 0,
     bulletHits |-> 0, attacks |-> 0, spawnDue |-> FALSE, spawned |-> 0,
     escalated |-> FALSE, gameOver |-> FALSE, restarted |-> FALSE,
     raised |-> FALSE, contact |-> {}, killCount |-> 0, visits |-> <<>>,
     hit |-> {}, bulletsSeen |-> 0, died |-> 0, touch |-> {},
     pruned |-> <<>>, dies |-> <<>>, near |-> {}, attackers |-> <<>>]

\* The Game object (with its player) as one record
GameState ==
    [isGameStarted |-> isGameStarted, gameRunning |-> gameRunning,
     zombieSpawnTimer |-> zombieSpawnTimer,
     zombieSpawnInterval |-> zombieSpawnInterval, zombies |-> zombies,
     startListener |-> startListener, restartListener |-> restartListener,
     player |-> player, bulletBodies |-> bulletBodies, frame |-> frame]

\* Game.startGame()
Game_startGame(g) ==
    IF ~g.isGameStarted
    THEN [g EXCEPT !.isGameStarted = TRUE, !.gameRunning = TRUE]
    ELSE g

\* Game.getKillCount()
Game_getKillCount(g) == Max(0, killCountBase - Len(g.zombies))

\* The zombies that die() moved to dead between two looks at the collection
\* (same length, same order)
Game_died(before, after) ==
    Cardinality({j \in 1..Len(after) :
                    ~Zombie_isDead(before[j]) /\ Zombie_isDead(after[j])})

\* Game.gameOver(): stops the session, shows getKillCount() and registers
\* click -> restartGame
Game_gameOver(g) ==
    [g EXCEPT !.gameRunning = FALSE, !.restartListener = TRUE,
              !.frame.gameOver = TRUE,
              !.frame.killCount = Game_getKillCount(g)]

\* Game.updateUI(): the game-over check at the end of update()
Game_updateUI(g) ==
    IF g.player.health <= 0 THEN Game_gameOver(g) ELSE g

\* Mutant: restartGame that leaves the old zombies in the collection
Game_restartGameKeepZombies(g) ==
    LET cleared == [g EXCEPT !.player = Player_reset(g.player),
                             !.bulletBodies = Player_resetBodies(g.bulletBodies, g.player),
                             !.zombieSpawnTimer = 0,
                             !.zombieSpawnInterval = initialSpawnInterval,
                             !.frame.restarted = TRUE,
                             !.frame.raised =
                                 (g.zombieSpawnInterval < initialSpawnInterval)]
        started == Game_startGame(cleared)
    IN  [started EXCEPT !.zombies = Game_spawnZombies(started.zombies, initialZombies)]

\* Game.restartGame()
Game_restartGame(g) ==
    LET cleared == [g EXCEPT !.player = Player_reset(g.player),
                             !.bulletBodies = Player_resetBodies(g.bulletBodies, g.player),
                             !.zombies = <<>>,
                             !.zombieSpawnTimer = 0,
                             !.zombieSpawnInterval = initialSpawnInterval,
                             !.frame.restarted = TRUE,
                             !.frame.raised =
                                 (g.zombieSpawnInterval < initialSpawnInterval)]
        started == Game_startGame(cleared)
    IN  [started EXCEPT !.zombies = Game_spawnZombies(started.zombies, initialZombies)]

\* Mutant: the tick with the spawn director after the damage resolution
Game_runFrameSpawnLast(g, in, dt, currentTime) ==
    LET stepped == World_fixedStep(g.player.bullets,
                                   in.struck \cup {c[1] : c \in in.contact}
                                       \cup World_collideEvents(in.touch),
                                   in.fallen)
        p0 == [g.player EXCEPT !.bullets = stepped]
        shot == Player_updateShooting(p0, in.shoot, currentTime)
        p1 == Player_update(p0, in.shoot, currentTime)
        bodies1 == Player_updateBulletsBodies(
                       Player_shootBodies(g.bulletBodies, p0, shot), shot, p1)
        loop == Game_updateZombiesLoop(g.zombies, dt, in)
        zs1 == loop.zs
        bc == Game_handleBulletCollisions(p1.bullets, zs1, bodies1, in.hit)
        zp == Game_handleZombiePlayerCollisions(
                  bc.zs, [p1 EXCEPT !.bullets = bc.bs], in.near, currentTime)
        sp == Game_updateSpawning(zp.zs, g.zombieSpawnTimer, g.zombieSpawnInterval, dt)
    IN  Game_updateUI(
            [g EXCEPT !.player = zp.p,
                      !.bulletBodies = bc.bodies,
                      !.zombies = sp[1],
                      !.zombieSpawnTimer = sp[2],
                      !.zombieSpawnInterval = sp[3],
                      !.frame = [Observed("update") EXCEPT
                                    !.fireHeld = in.shoot,
                                    !.contact = in.contact,
                                    !.touch = in.touch,
                                    !.hit = in.hit,
                                    !.died = Game_died(zs1, bc.zs),
                                    !.bulletsSeen = Len(p1.bullets),
                                    !.visits = loop.visits,
                                    !.pruned = loop.pruned,
                                    !.near = in.near,
                                    !.attackers = zp.attackers,
                                    !.dies = bc.dies,
                                    !.shots = Len(shot.bullets) - Len(p0.bullets),
                                    !.ammoUsed = p0.ammo - shot.ammo,
                                    !.spawnDue = (sp[2] = 0),
                                    !.spawned = Len(sp[1]) - Len(zp.zs),
                                    !.escalated = (sp[3] # g.zombieSpawnInterval),
                                    !.bulletHits = bc.maxHits,
                                    !.attacks = zp.attacks]])

\* The body of Game.update(deltaTime) once the session is known to be running:
\* physics step, player, zombies, spawn director, collisions, UI.
\* in: the frame's inputs; dt = deltaTime * 1000; currentTime = Date.now()
Game_runFrame(g, in, dt, currentTime) ==
    LET stepped == World_fixedStep(g.player.bullets,
                                   in.struck \cup {c[1] : c \in in.contact}
                                       \cup World_collideEvents(in.touch),
                                   in.fallen)
        p0 == [g.player EXCEPT !.bullets = stepped]
        shot == Player_updateShooting(p0, in.shoot, currentTime)
        p1 == Player_update(p0, in.shoot, currentTime)
        bodies1 == Player_updateBulletsBodies(
                       Player_shootBodies(g.bulletBodies, p0, shot), shot, p1)
        loop == Game_updateZombiesLoop(g.zombies, dt, in)
        zs1 == loop.zs
        sp == Game_updateSpawning(zs1, g.zombieSpawnTimer, g.zombieSpawnInterval, dt)
        bc == Game_handleBulletCollisions(p1.bullets, sp[1], bodies1, in.hit)
        zp == Game_handleZombiePlayerCollisions(
                  bc.zs, [p1 EXCEPT !.bullets = bc.bs], in.near, currentTime)
    IN  Game_updateUI(
            [g EXCEPT !.player = zp.p,
                      !.bulletBodies = bc.bodies,
                      !.zombies = zp.zs,
                      !.zombieSpawnTimer = sp[2],
                      !.zombieSpawnInterval = sp[3],
                      !.frame = [Observed("update") EXCEPT
                                    !.fireHeld = in.shoot,
                                    !.contact = in.contact,
                                    !.touch = in.touch,
                                    !.hit = in.hit,
                                    !.died = Game_died(sp[1], bc.zs),
                                    !.bulletsSeen = Len(p1.bullets),
                                    !.visits = loop.visits,
                                    !.pruned = loop.pruned,
                                    !.near = in.near,
                                    !.attackers = zp.attackers,
                                    !.dies = bc.dies,
                                    !.shots = Len(shot.bullets) - Len(p0.bullets),
                                    !.ammoUsed = p0.ammo - shot.ammo,
                                    !.spawnDue = (sp[2] = 0),
                                    !.spawned = Len(sp[1]) - Len(zs1),
                                    !.escalated = (sp[3] # g.zombieSpawnInterval),
                                    !.bulletHits = bc.maxHits,
                                    !.attacks = zp.attacks]])

\* Mutant: update without the gameRunning test
Game_updateAlways(g, in, dt, currentTime) ==
    Game_runFrame(g, in, dt, currentTime)

\* Game.update(deltaTime)
Game_update(g, in, dt, currentTime) ==
    IF ~g.gameRunning
    THEN [g EXCEPT !.frame = [Observed("frozen") EXCEPT !.fireHeld = in.shoot]]
    ELSE Game_runFrame(g, in, dt, currentTime)

\* Game.init(): setupEntities, setupEventListeners, startGame
Game_init(g) ==
    Game_startGame(
        [g EXCEPT !.player = Player_new,
                  !.zombies = Game_spawnZombies(g.zombies, initialZombies),
                  !.startListener = TRUE,
                  !.frame = Observed("init")])

\* A click on the document: the once-listeners registered so far run in the
\* order they were registered, and are removed
Game_click(g) ==
    LET g0 == [g EXCEPT !.frame = Observed("click")]
        g1 == IF g.startListener
              THEN [Game_startGame(g0) EXCEPT !.startListener = FALSE]
              ELSE g0
    IN  IF g.restartListener
        THEN Game_restartGame([g1 EXCEPT !.restartListener = FALSE])
        ELSE g1

SetGame(g) ==
    /\ isGameStarted' = g.isGameStarted
    /\ gameRunning' = g.gameRunning
    /\ zombieSpawnTimer' = g.zombieSpawnTimer
    /\ zombieSpawnInterval' = g.zombieSpawnInterval
    /\ zombies' = g.zombies
    /\ startListener' = g.startListener
    /\ restartListener' = g.restartListener
    /\ player' = g.player
    /\ bulletBodies' = g.bulletBodies
    /\ frame' = g.frame

----------------------------------------------------------------------------
(* State machine                                                           *)

\* No spawn placement yet; the player stands where its constructor puts it
NoSpawn == [player |-> <<0, 0>>, zombie |-> <<0, 0>>, placed |-> FALSE]

\* What a call on zed is observed to do: the method, the takeDamage calls made
\* so far, the inputs of an update, and whether attack() ran
\* offset: from the zombie to its target at an update, <<x, y, z>> in tenths
ZedObserved(op, hits) ==
    [op |-> op, hits |-> hits, dt |-> 0, still |-> FALSE, attacked |-> FALSE,
     offset |-> <<0, 0, 0>>]

\* The onlooker's book: ids, a name for each zombie of the collection, in
\* order (<<time it was made, its place among those made then>>); gone: the
\* names of the zombies removeFromScene() ran on, one entry per call
NoTags == [ids |-> <<>>, gone |-> <<>>]

\* A new HealthSystem of each of the two other modules; results: what the
\* last call returned from hs, from part001 and from utils
Twins_new ==
    [part001 |-> Part001_HealthSystem_new(defaultMaxHealth),
     utils |-> Utils_HealthSystem_new(defaultMaxHealth),
     op |-> "new", results |-> <<TRUE, TRUE, TRUE>>]

\* new Game(), a new HealthSystem(), a new Zombie(), before init()
Init ==
    /\ now = Epoch
    /\ clockRunning = FALSE
    /\ isGameStarted = FALSE
    /\ gameRunning = FALSE
    /\ zombieSpawnTimer = 0
    /\ zombieSpawnInterval = initialSpawnInterval
    /\ zombies = <<>>
    /\ startListener = FALSE
    /\ restartListener = FALSE
    /\ player = Player_new
    /\ bulletBodies = {}
    /\ kills = 0
    /\ tags = NoTags
    /\ hs = HealthSystem_new(defaultMaxHealth)
    /\ calls = <<>>
    /\ deaths = 0
    /\ twins = Twins_new
    /\ zed = Zombie_new
    /\ zedLog = ZedObserved("new", 0)
    /\ spawn = NoSpawn
    /\ hop = Hop_new
    /\ frame = Observed("new")

\* main.js: the first click runs game.init()
BootPage ==
    /\ ~isGameStarted
    /\ SetGame(Game_init(GameState))
    /\ UNCHANGED <<now, clockRunning, kills, healthVars, zedVars, spawn, hop>>

Boot ==
    /\ BootPage
    /\ UNCHANGED tags

\* the names of the zombies made at time t, count of them
Tags_made(t, count) == [k \in 1..count |-> <<t, k>>]

\* the names left when the zombies at the indices of pruned are taken out
Tags_without(ids, pruned) ==
    LET out == {pruned[i] : i \in 1..Len(pruned)}
        F[k \in 0..Len(ids)] ==
            IF k = 0 THEN <<>>
            ELSE IF k \in out THEN F[k - 1] ELSE Append(F[k - 1], ids[k])
    IN  F[Len(ids)]

\* the first click watched by an onlooker who names the zombies
BootTagged ==
    /\ BootPage
    /\ tags' = [tags EXCEPT !.ids = Tags_made(now, Len(zombies'))]

\* Game.animate(): one frame.  clock.getDelta() is 0 on the first frame (it
\* starts the clock) and the time since the previous frame afterwards.
\* horizon: the session length explored, in ms after Epoch.
AnimateFrame(in, horizon) ==
    LET dt == IF clockRunning THEN in.dt ELSE 0
    IN  /\ isGameStarted
        /\ now + dt <= Epoch + horizon
        /\ now' = now + dt
        /\ clockRunning' = TRUE
        /\ SetGame(Game_update(GameState, in, dt, now + dt))
        /\ UNCHANGED <<healthVars, zedVars, spawn, hop>>

Animate(in, horizon) ==
    /\ AnimateFrame(in, horizon)
    /\ UNCHANGED <<kills, tags>>

\* a frame watched by an onlooker who names the zombies: the names of the
\* zombies removeFromScene() ran on go from ids to gone, and a zombie the spawn
\* timer made is named after the time of the frame
AnimateTagged(in, horizon) ==
    /\ AnimateFrame(in, horizon)
    /\ UNCHANGED kills
    /\ tags' = [ids |-> Tags_without(tags.ids, frame'.pruned)
                            \o Tags_made(now', frame'.spawned),
                gone |-> tags.gone
                            \o [i \in 1..Len(frame'.pruned) |->
                                    tags.ids[frame'.pruned[i]]]]

\* a frame watched by an onlooker who counts the zombies that die
AnimateTallied(in, horizon) ==
    /\ AnimateFrame(in, horizon)
    /\ kills' = kills + frame'.died
    /\ UNCHANGED tags

\* A click on the page once the game is set up
ClickPage ==
    /\ startListener \/ restartListener
    /\ SetGame(Game_click(GameState))
    /\ UNCHANGED <<now, clockRunning, healthVars, zedVars, spawn, hop>>

Click ==
    /\ ClickPage
    /\ UNCHANGED <<kills, tags>>

\* a click watched by an onlooker who names the zombies: restartGame() runs
\* removeFromScene() on every zombie and makes the initial ones anew
ClickTagged ==
    /\ ClickPage
    /\ UNCHANGED kills
    /\ tags' = IF frame'.restarted
               THEN [ids |-> Tags_made(now, Len(zombies')),
                     gone |-> tags.gone \o tags.ids]
               ELSE tags

\* a click watched by the onlooker: the count starts again with a new session
ClickTallied ==
    /\ ClickPage
    /\ kills' = IF frame'.restarted THEN 0 ELSE kills
    /\ UNCHANGED tags

----------------------------------------------------------------------------
(* The inputs of a frame                                                   *)

\* dt: deltaTime in ms; shoot: keys.shoot; struck: bullets whose body collided
\* in the physics step; inRange: zombies within attackRange at their AI
\* evaluation; near: zombies with isNearPlayer; hit: <<bullet, zombie>> pairs
\* with checkCollision true.  Indices past the end of an array name nothing.
\* contact: the <<bullet, zombie>> pairs whose bodies collided in the physics
\* step (the bullet's collide listener runs for each).
\* Unless a scenario says otherwise no bullet body meets a zombie body
\* (contact) or any other body (touch), no bullet falls out of the world (fallen),
\* every zombie moves more than movementThreshold per tick (still is empty) and
\* draw, the two Math.random() values of unstuck() in thousandths, is <<0, 0>>.
FrameInput(dt, shoot, struck, inRange, near, hit) ==
    [dt |-> dt, shoot |-> shoot, struck |-> struck, inRange |-> inRange,
     near |-> near, hit |-> hit, fallen |-> {}, still |-> {}, draw |-> <<0, 0>>,
     contact |-> {}, touch |-> {}]

\* Frame lengths: a frame as long as the initial spawn interval (every such
\* frame fires the spawn timer), one as long as the attack cooldown, and the
\* 50 ms step of the rapid-fire scenario
SlowFrame == initialSpawnInterval
MidFrame == attackCooldown
FireStep == fireRate \div 4

Quiet == FrameInput(SlowFrame, FALSE, {}, {}, {}, {})
\* the player fires and the bullet flies on
Fire == FrameInput(SlowFrame, TRUE, {}, {}, {}, {})
\* the player fires and the oldest bullet is within reach of the first zombie
FireHit == FrameInput(SlowFrame, TRUE, {}, {}, {}, {<<1, 1>>})
\* the first zombie (the first two zombies) stands next to the player
Attacked == FrameInput(SlowFrame, FALSE, {}, {1}, {1}, {})
Swarmed == FrameInput(SlowFrame, FALSE, {}, {1, 2}, {1, 2}, {})

\* A session up to game over and restart
SessionInputs == {Quiet, FireHit, Attacked, Swarmed}
MaxFrames == 12
SessionHorizon == MaxFrames * SlowFrame

Next ==
    \/ Boot
    \/ \E in \in SessionInputs : Animate(in, SessionHorizon)
    \/ Click

Spec == Init /\ [][Next]_vars

\* A long session in which no zombie reaches the player: the spawn director
\* runs down to its floor and the magazine runs empty
SurvivalInputs == {Quiet, Fire, FireHit}
MaxSurvivalFrames == 45
SurvivalHorizon == MaxSurvivalFrames * SlowFrame

NextSurvival ==
    \/ Boot
    \/ \E in \in SurvivalInputs : Animate(in, SurvivalHorizon)
    \/ Click

SpecSurvival == Init /\ [][NextSurvival]_vars

\* Rapid fire: the fire button is held and a frame comes every 50 ms
FireInputs ==
    { FrameInput(FireStep, TRUE, {}, r, r, h) :
        r \in {{}, {1}}, h \in {{}, {<<1, 1>>}, {<<2, 2>>}} }
MaxFireFrames == 21
FireHorizon == (MaxFireFrames - 1) * FireStep

NextFire ==
    \/ Boot
    \/ \E in \in FireInputs : Animate(in, FireHorizon)
    \/ Click

SpecFire == Init /\ [][NextFire]_vars

\* Close combat: a few frames with two bullets and two zombies in any geometry
CombatInputs ==
    { FrameInput(dt, shoot, struck, {}, {}, h) :
        dt \in {MidFrame, SlowFrame}, shoot \in BOOLEAN, struck \in {{}, {1}},
        h \in {{}, {<<1, 1>>}, {<<1, 1>>, <<1, 2>>}, {<<2, 1>>, <<2, 2>>}} }
MaxCombatFrames == 3
CombatHorizon == MaxCombatFrames * SlowFrame

NextCombat ==
    \/ Boot
    \/ \E in \in CombatInputs : Animate(in, CombatHorizon)
    \/ Click

SpecCombat == Init /\ [][NextCombat]_vars

\* Melee: the first zombie comes and goes, with a frame every half cooldown
HalfCooldown == attackCooldown \div 2
MeleeInputs ==
    { FrameInput(HalfCooldown, FALSE, {}, r, n, {}) :
        r \in {{}, {1}}, n \in {{}, {1}} }
MaxMeleeFrames == 8
MeleeHorizon == MaxMeleeFrames * HalfCooldown

NextMelee ==
    \/ Boot
    \/ \E in \in MeleeInputs : Animate(in, MeleeHorizon)
    \/ Click

SpecMelee == Init /\ [][NextMelee]_vars

\* Bullet expiry: a frame every 500 ms with up to four bullets in flight; the
\* physics step strikes the second, or the third and fourth, or drops the
\* first out of the world; the oldest bullet is within reach of two zombies.
ExpiryFrame == bulletLifeTime \div 6
ExpiryInputs ==
    { [FrameInput(ExpiryFrame, shoot, struck, {}, {}, h) EXCEPT !.fallen = f] :
        shoot \in BOOLEAN, struck \in {{}, {2}, {3, 4}}, f \in {{}, {1}},
        h \in {{}, {<<1, 1>>, <<1, 2>>}} }
MaxExpiryFrames == 6
ExpiryHorizon == MaxExpiryFrames * ExpiryFrame

NextExpiry ==
    \/ Boot
    \/ \E in \in ExpiryInputs : Animate(in, ExpiryHorizon)
    \/ Click

\* requestAnimationFrame: once the clock runs, the next frame of the scenario
\* comes ExpiryFrame later
FrameComes ==
    /\ isGameStarted
    /\ clockRunning
    /\ now + ExpiryFrame <= Epoch + ExpiryHorizon
    /\ now' = now + ExpiryFrame

SpecExpiry ==
    /\ Init
    /\ [][NextExpiry]_vars
    /\ WF_now(FrameComes)

\* Pruning: a frame every 500 ms under the eyes of an onlooker who names the
\* zombies; the oldest bullet is within reach of the first two zombies or of
\* the first three, so that two or three zombies die in one tick
PruneInputs ==
    { FrameInput(ExpiryFrame, shoot, {}, {}, {}, h) :
        shoot \in BOOLEAN,
        h \in {{}, {<<1, 1>>, <<1, 2>>}, {<<1, 1>>, <<1, 2>>, <<1, 3>>}} }

NextPrune ==
    \/ BootTagged
    \/ \E in \in PruneInputs : AnimateTagged(in, ExpiryHorizon)
    \/ ClickTagged

SpecPrune ==
    /\ Init
    /\ [][NextPrune]_vars
    /\ WF_now(FrameComes)

\* Defeat: a frame every attack cooldown; the first zombie mauls the player in
\* every frame, and in some the player fires at the second zombie
Mauled == FrameInput(MidFrame, FALSE, {}, {1}, {1}, {})
MauledFiring == FrameInput(MidFrame, TRUE, {}, {1}, {1}, {<<1, 2>>})
DefeatInputs == {Mauled, MauledFiring}
MaxDefeatFrames == 12
DefeatHorizon == MaxDefeatFrames * MidFrame

NextDefeat ==
    \/ Boot
    \/ \E in \in DefeatInputs : AnimateTallied(in, DefeatHorizon)
    \/ ClickTallied

SpecDefeat == Init /\ [][NextDefeat]_vars

\* Tick order: a frame every spawn interval, so that every frame after the
\* first spawns a zombie; the oldest bullet is within reach of the first zombie
\* or of the place where the fourth or the fifth zombie appears
OrderInputs ==
    { FrameInput(SlowFrame, shoot, {}, {}, {}, h) :
        shoot \in BOOLEAN, h \in {{}, {<<1, 1>>}, {<<1, 4>>}, {<<1, 5>>}} }
MaxOrderFrames == 5
OrderHorizon == MaxOrderFrames * SlowFrame

NextOrder ==
    \/ Boot
    \/ \E in \in OrderInputs : Animate(in, OrderHorizon)
    \/ Click

SpecOrder == Init /\ [][NextOrder]_vars

\* Physical contact: a frame every 500 ms; the body of the oldest bullet meets
\* the body of the first zombie in the physics step, and (or) the oldest bullet
\* the collision pass sees is within 1.0 of the first zombie's feet
ContactInputs ==
    { [FrameInput(ExpiryFrame, shoot, {}, {}, {}, h) EXCEPT !.contact = c] :
        shoot \in BOOLEAN, c \in {{}, {<<1, 1>>}}, h \in {{}, {<<1, 1>>}} }
MaxContactFrames == 5
ContactHorizon == MaxContactFrames * ExpiryFrame

NextContact ==
    \/ Boot
    \/ \E in \in ContactInputs : Animate(in, ContactHorizon)
    \/ Click

SpecContact == Init /\ [][NextContact]_vars

\* Stray contact: a frame every 500 ms with up to four bullets in flight; the
\* shape of the oldest or of the second bullet overlaps a body of one category
TouchInputs ==
    { [FrameInput(ExpiryFrame, shoot, {}, {}, {}, {}) EXCEPT !.touch = t] :
        shoot \in BOOLEAN,
        t \in {{}} \cup {{<<k, kind>>} : k \in 1..2, kind \in BodyKinds} }
MaxTouchFrames == 5
TouchHorizon == MaxTouchFrames * ExpiryFrame

NextTouch ==
    \/ Boot
    \/ \E in \in TouchInputs : Animate(in, TouchHorizon)
    \/ Click

SpecTouch == Init /\ [][NextTouch]_vars

\* The spawn director: a long quiet session with a frame every 1500 or 3000 ms,
\* so that the timer fires on some frames and not on others, fills the
\* population and runs the interval down to its floor
DirectorInputs == {FrameInput(dt, FALSE, {}, {}, {}, {}) : dt \in {MidFrame, SlowFrame}}
MaxDirectorFrames == 45
DirectorHorizon == MaxDirectorFrames * SlowFrame

NextDirector ==
    \/ Boot
    \/ \E in \in DirectorInputs : Animate(in, DirectorHorizon)
    \/ Click

SpecDirector == Init /\ [][NextDirector]_vars

----------------------------------------------------------------------------
(* A harness that calls the health components directly                     *)

HalfWindow == damageImmunityDuration \div 2
DamageAmounts == {10, 100}
HealAmounts == {10, -10}
MaxHealthSteps == 6
\* how far below zero the harness lets heal() drive the health
HealthSlack == 20
HealthHorizon == MaxHealthSteps * HalfWindow

\* the log keeps the last two calls
Logged(entry) ==
    IF Len(calls) < 2 THEN Append(calls, entry) ELSE <<calls[2], entry>>

\* hsImmune: hs was inside its immunity window when the call was made
Call(obj, op, amount, applied, health) ==
    [obj |-> obj, op |-> op, amount |-> amount, time |-> now,
     applied |-> applied, health |-> health,
     hsImmune |-> HealthSystem_isImmune(hs, now)]

\* deaths counts the onDeath calls of an uninterrupted run of takeDamage calls
HsTakeDamage(amount) ==
    /\ hs' = HealthSystem_takeDamage(hs, amount, now)
    /\ calls' = Logged(Call("hs", "takeDamage", amount,
                            HealthSystem_takeDamageResult(hs, amount, now),
                            hs'.currentHealth))
    /\ deaths' = IF HealthSystem_takeDamageCallbacks(hs, amount, now).onDeath
                 THEN deaths + 1 ELSE deaths
    /\ UNCHANGED <<now, player, twins, gameVars, zedVars, spawn, hop>>

HsHeal(amount) ==
    /\ hs.currentHealth + amount >= -HealthSlack
    /\ hs' = HealthSystem_heal(hs, amount)
    /\ calls' = Logged(Call("hs", "heal", amount, TRUE, hs'.currentHealth))
    /\ deaths' = 0
    /\ UNCHANGED <<now, player, twins, gameVars, zedVars, spawn, hop>>

HsReset ==
    /\ hs' = HealthSystem_reset(hs)
    /\ calls' = Logged(Call("hs", "reset", 0, TRUE, hs'.currentHealth))
    /\ deaths' = 0
    /\ UNCHANGED <<now, player, twins, gameVars, zedVars, spawn, hop>>

PlayerTakeDamage(amount) ==
    /\ player' = Player_takeDamage(player, amount, now)
    /\ calls' = Logged(Call("player", "takeDamage", amount,
                            Player_takeDamageApplied(player, now), player'.health))
    /\ UNCHANGED <<now, hs, deaths, twins, gameVars, zedVars, spawn, hop>>

\* time passes between calls
Tock(d) ==
    /\ now + d <= Epoch + HealthHorizon
    /\ now' = now + d
    /\ UNCHANGED <<healthVars, player, gameVars, zedVars, spawn, hop>>

NextHealth ==
    \/ \E a \in DamageAmounts : HsTakeDamage(a)
    \/ \E a \in HealAmounts : HsHeal(a)
    \/ HsReset
    \/ PlayerTakeDamage(attackDamage)
    \/ \E d \in {HalfWindow, damageImmunityDuration} : Tock(d)

SpecHealth == Init /\ [][NextHealth]_vars

\* The same call made on one object of each of the three HealthSystem classes
TwinTakeDamage(amount) ==
    /\ hs' = HealthSystem_takeDamage(hs, amount, now)
    /\ twins' =
           [part001 |-> Part001_HealthSystem_takeDamage(twins.part001, amount, now),
            utils |-> Utils_HealthSystem_takeDamage(twins.utils, amount, now),
            op |-> "takeDamage",
            results |->
                <<HealthSystem_takeDamageResult(hs, amount, now),
                  Part001_HealthSystem_takeDamageResult(twins.part001, amount, now),
                  Utils_HealthSystem_takeDamageResult(twins.utils, amount, now)>>]
    /\ UNCHANGED <<now, player, calls, deaths, gameVars, zedVars, spawn, hop>>

TwinHeal(amount) ==
    /\ hs.currentHealth + amount >= -HealthSlack
    /\ hs' = HealthSystem_heal(hs, amount)
    /\ twins' = [part001 |-> Part001_HealthSystem_heal(twins.part001, amount),
                 utils |-> Utils_HealthSystem_heal(twins.utils, amount),
                 op |-> "heal", results |-> <<TRUE, TRUE, TRUE>>]
    /\ UNCHANGED <<now, player, calls, deaths, gameVars, zedVars, spawn, hop>>

TwinReset ==
    /\ hs' = HealthSystem_reset(hs)
    /\ twins' = [part001 |-> Part001_HealthSystem_reset(twins.part001),
                 utils |-> Utils_HealthSystem_reset(twins.utils),
                 op |-> "reset", results |-> <<TRUE, TRUE, TRUE>>]
    /\ UNCHANGED <<now, player, calls, deaths, gameVars, zedVars, spawn, hop>>

\* time passes between calls, by half an immunity window or a whole one
NextTwins ==
    \/ \E a \in DamageAmounts : TwinTakeDamage(a)
    \/ \E a \in HealAmounts : TwinHeal(a)
    \/ TwinReset
    \/ \E d \in {HalfWindow, damageImmunityDuration} : Tock(d)

SpecTwins == Init /\ [][NextTwins]_vars

----------------------------------------------------------------------------
(* A harness that calls one Zombie directly                                *)

MaxZedTicks == 8
MaxZedHits == 5
ZedHorizon == MaxZedTicks * HalfWindow
\* the Math.random() pairs of unstuck(), in thousandths: both zero, both one
\* half, one near one with one zero
UnstuckDraws == {<<0, 0>>, <<500, 500>>, <<999, 0>>}

ZedTakeDamage ==
    /\ zedLog.hits < MaxZedHits
    /\ zed' = Zombie_takeDamage(zed, bulletDamage)
    /\ zedLog' = ZedObserved("takeDamage", zedLog.hits + 1)
    /\ UNCHANGED <<now, player, gameVars, healthVars, spawn, hop>>

\* Where the target stands from the zombie's feet: 1.9 ahead on the same
\* level; 1.9 ahead and 0.9 up (the height of the player's body at rest on the
\* ground); 3.0 ahead and 0.9 up
Offsets == {<<19, 0, 0>>, <<19, 9, 0>>, <<30, 9, 0>>}

\* one tick: time passes and zombie.update(deltaTime) runs with the target
\* offset away
ZedUpdate(dt, offset, still, draw) ==
    /\ now + dt <= Epoch + ZedHorizon
    /\ now' = now + dt
    /\ zed' = Zombie_update(zed, dt, Zombie_inRange(offset), still, draw)
    /\ zedLog' = [ZedObserved("update", zedLog.hits) EXCEPT
                     !.dt = dt, !.still = still, !.offset = offset]
    /\ UNCHANGED <<player, gameVars, healthVars, spawn, hop>>

\* setTarget(player) or setTarget(null)
ZedSetTarget(target) ==
    /\ zed.target # target
    /\ zed' = Zombie_setTarget(zed, target)
    /\ zedLog' = ZedObserved("setTarget", zedLog.hits)
    /\ UNCHANGED <<now, player, gameVars, healthVars, spawn, hop>>

\* the body of handleZombiePlayerCollisions for a zombie next to the player
ZedTryAttack ==
    /\ zed' = IF Zombie_canAttack(zed, now) THEN Zombie_attack(zed, now) ELSE zed
    /\ zedLog' = [ZedObserved("canAttack", zedLog.hits) EXCEPT
                     !.attacked = Zombie_canAttack(zed, now)]
    /\ UNCHANGED <<now, player, gameVars, healthVars, spawn, hop>>

\* attack() called on its own
ZedAttack ==
    /\ zed' = Zombie_attack(zed, now)
    /\ zedLog' = [ZedObserved("attack", zedLog.hits) EXCEPT !.attacked = TRUE]
    /\ UNCHANGED <<now, player, gameVars, healthVars, spawn, hop>>

NextZombie ==
    \/ ZedTakeDamage
    \/ \E offset \in Offsets, still \in BOOLEAN, draw \in UnstuckDraws :
           ZedUpdate(HalfWindow, offset, still, draw)
    \/ \E target \in BOOLEAN : ZedSetTarget(target)
    \/ ZedTryAttack
    \/ ZedAttack

SpecZombie == Init /\ [][NextZombie]_vars

----------------------------------------------------------------------------
(* Spawn placement against the player's position                           *)

\* cos and sin of a quarter turns
CosQuarter(a) == IF a = 0 THEN 1 ELSE IF a = 2 THEN -1 ELSE 0
SinQuarter(a) == IF a = 1 THEN 1 ELSE IF a = 3 THEN -1 ELSE 0

\* The placement of Game.spawnZombies: turn and radial are its two
\* Math.random() values in thousandths; the angle is taken to the quarter turn
Game_spawnPoint(turn, radial) ==
    LET distance == spawnInnerRadius + (radial * spawnRadiusSpread) \div 1000
        a == (turn * 4) \div 1000
    IN  <<CosQuarter(a) * distance, SinQuarter(a) * distance>>

DistSq(p, q) == (p[1] - q[1]) * (p[1] - q[1]) + (p[2] - q[2]) * (p[2] - q[2])

\* how far the player walks between two looks, and how many such walks from
\* the origin along an axis are explored
moveSpeed == 10
MaxWalk == 3
TurnDraws == {0, 250, 500, 750}
RadialDraws == {0, 500, 999}

\* Player.updateMovement: the player's position follows its body
PlayerWalks(dx, dz) ==
    /\ spawn.player[1] + dx \in -(MaxWalk * moveSpeed)..(MaxWalk * moveSpeed)
    /\ spawn.player[2] + dz \in -(MaxWalk * moveSpeed)..(MaxWalk * moveSpeed)
    /\ spawn' = [spawn EXCEPT !.player = <<spawn.player[1] + dx, spawn.player[2] + dz>>,
                              !.placed = FALSE]
    /\ UNCHANGED <<now, player, gameVars, healthVars, zedVars, hop>>

\* Game.spawnZombies places one zombie
SpawnZombie(turn, radial) ==
    /\ spawn' = [spawn EXCEPT !.zombie = Game_spawnPoint(turn, radial),
                              !.placed = TRUE]
    /\ UNCHANGED <<now, player, gameVars, healthVars, zedVars, hop>>

NextSpawn ==
    \/ \E d \in {<<moveSpeed, 0>>, <<-moveSpeed, 0>>, <<0, moveSpeed>>, <<0, -moveSpeed>>} :
           PlayerWalks(d[1], d[2])
    \/ \E turn \in TurnDraws, radial \in RadialDraws : SpawnZombie(turn, radial)

SpecSpawn == Init /\ [][NextSpawn]_vars

----------------------------------------------------------------------------
(* The player's body over the ticks of a running session                   *)

MaxHopTicks == 120

\* One tick of Game.update for the player's body: physics step, then
\* Player.update with keys.jump = jump
HopTick(jump) ==
    /\ hop.ticks < MaxHopTicks
    /\ hop' = [Player_updateBody(World_stepPlayer(hop), jump) EXCEPT
                  !.ticks = hop.ticks + 1]
    /\ UNCHANGED <<now, player, gameVars, healthVars, zedVars, spawn>>

\* The player moves sideways to where the surface under the body is at
\* height floor (over a barrier, or off it); the body is clear of that surface
HopOver(floor) ==
    /\ hop.floor # floor
    /\ hop.y > floor + restHeight
    /\ hop' = [hop EXCEPT !.floor = floor]
    /\ UNCHANGED <<now, player, gameVars, healthVars, zedVars, spawn>>

NextHop ==
    \/ \E jump \in BOOLEAN : HopTick(jump)
    \/ \E floor \in {0, obstacleTop} : HopOver(floor)

SpecHop == Init /\ [][NextHop]_vars

----------------------------------------------------------------------------
(* Properties                                                              *)

\* C1: after every takeDamage / heal call on a HealthSystem, whatever the
\* amount, 0 <= currentHealth <= maxHealth.
C1_HealthInRange ==
    /\ 0 <= hs.currentHealth
    /\ hs.currentHealth <= hs.maxHealth

\* two consecutive takeDamage(10) calls on one object, the second less than
\* the immunity window after the first
TwoQuickHits ==
    /\ Len(calls) = 2
    /\ calls[1].obj = calls[2].obj
    /\ calls[1].op = "takeDamage" /\ calls[2].op = "takeDamage"
    /\ calls[1].amount = attackDamage /\ calls[2].amount = attackDamage
    /\ calls[2].time - calls[1].time < damageImmunityDuration

\* C2 as stated: of two takeDamage(10) calls less than 1000 ms apart only the
\* first reduces health; health after both equals health after the first.
C2_SecondCallBlocked ==
    TwoQuickHits => /\ ~calls[2].applied
                    /\ calls[2].health = calls[1].health

\* C2 amended: of two takeDamage(10) calls less than 1000 ms apart, the first
\* of which was applied, the second is blocked and health after both equals
\* health after the first (HealthSystem.takeDamage and Player.takeDamage).
C2_SecondCallBlockedAfterApplied ==
    (TwoQuickHits /\ calls[1].applied) =>
        /\ ~calls[2].applied
        /\ calls[2].health = calls[1].health

C2_Witness ==
    /\ TwoQuickHits
    /\ calls[1].applied
    /\ ~calls[2].applied
    /\ calls[2].health = defaultMaxHealth - attackDamage

\* C3: the active zombie collection never holds more than maxZombies zombies.
C3_PopulationCap == Len(zombies) <= maxZombies

\* the spawn timer fired with the population at the cap, and nothing was added
C3_Witness ==
    /\ frame.spawnDue
    /\ frame.spawned = 0
    /\ Len(zombies) = maxZombies

\* C4: in handleBulletCollisions a bullet calls takeDamage on at most one
\* zombie, also with a second zombie inside its collision radius.
C4_SingleUse == frame.bulletHits <= 1

\* C5: restartGame() after gameOver() leaves gameRunning true.
C5_RestartRuns == frame.restarted => gameRunning

\* C6: after restartGame() the collection holds the initial spawn count, the
\* player is at full health and the spawn interval and timer are reset.
C6_RestartResets ==
    frame.restarted =>
        /\ Len(zombies) = initialZombies
        /\ player.health = player.maxHealth
        /\ zombieSpawnInterval = initialSpawnInterval
        /\ zombieSpawnTimer = 0

C6_Witness ==
    /\ frame.restarted
    /\ Len(zombies) = initialZombies
    /\ player.health = player.maxHealth

\* C7: health <= 0 at the end of a running frame ends the session in that
\* frame, and while the session is over no update changes the simulation
\* state: only restartGame does.
C7_Frozen ==
    /\ [](player.health <= 0 => ~gameRunning)
    /\ [][(isGameStarted /\ ~gameRunning /\ simVars' # simVars)
              => frame'.restarted]_vars

\* a frame came while the session was over
C7_Witness ==
    /\ frame.op = "frozen"
    /\ player.health <= 0
    /\ ~gameRunning

\* C8: two shots are at least fireRate apart; with the fire button held and a
\* frame every 50 ms from t = 0 to t = 950, five shots are fired and 25 rounds
\* are left.
C8_FireRate ==
    /\ [][(frame'.op = "update" /\ frame'.shots > 0)
              => now' - player.lastShotTime >= fireRate]_vars
    /\ []((clockRunning /\ now = Epoch + 19 * FireStep)
              => player.ammo = maxAmmo - 5)

C8_Witness ==
    /\ clockRunning
    /\ now = Epoch + 19 * FireStep
    /\ frame.op = "update"
    /\ player.ammo = maxAmmo - 5

\* C9: 0 <= ammo <= maxAmmo always; a shot is fired only with ammo > 0, pushes
\* exactly one bullet and takes exactly one round.
C9_Ammo ==
    /\ [](player.ammo >= 0 /\ player.ammo <= player.maxAmmo)
    /\ [][(frame'.op = "update" /\ (frame'.shots > 0 \/ player'.ammo # player.ammo))
              => /\ player.ammo > 0
                 /\ frame'.shots = 1
                 /\ player'.ammo = player.ammo - 1]_vars

\* the fire button is held on an empty magazine and nothing is fired
C9_Witness ==
    /\ frame.op = "update"
    /\ frame.fireHeld
    /\ frame.shots = 0
    /\ player.ammo = 0

\* C10: the spawn interval stays between its floor and its initial value.
C10_IntervalFloor ==
    /\ zombieSpawnInterval >= minSpawnInterval
    /\ zombieSpawnInterval <= initialSpawnInterval

\* the spawn timer fired with the interval at its floor, and left it there
C10_Witness ==
    /\ frame.spawnDue
    /\ ~frame.escalated
    /\ zombieSpawnInterval = minSpawnInterval

\* C11: zombies have no immunity window: a zombie of health 100 hit by bullets
\* of 25 damage at any spacing has health 75, 50, 25 after the first three hits,
\* is not dead before the fourth, and has health 0 and state dead from the fourth.
C11_FourHits ==
    /\ zed.health = Max(0, zombieMaxHealth - bulletDamage * zedLog.hits)
    /\ (zed.state = "dead") <=> (zedLog.hits >= 4)

\* the fourth hit has just landed
C11_Witness ==
    /\ zedLog.op = "takeDamage"
    /\ zedLog.hits = 4
    /\ zed.health = 0
    /\ zed.state = "dead"

\* C12: over takeDamage calls with no reset or heal in between, onDeath is
\* invoked exactly once: on the call that brings currentHealth to 0 and never
\* again on later calls.
C12_DeathOnce == deaths <= 1

\* C13: a takeDamage call inside the immunity window leaves currentHealth and
\* lastDamageTime unchanged, invokes neither onDeath nor onHealthChanged and
\* returns false; an applied call returns true.
C13_BlockedCall ==
    [][LET call == calls'[Len(calls')]
       IN  (calls' # calls /\ call.obj = "hs" /\ call.op = "takeDamage")
           => IF now - hs.lastDamageTime < damageImmunityDuration
              THEN /\ hs'.currentHealth = hs.currentHealth
                   /\ hs'.lastDamageTime = hs.lastDamageTime
                   /\ deaths' = deaths
                   /\ ~HealthSystem_takeDamageCallbacks(hs, call.amount, now).onHealthChanged
                   /\ ~call.applied
              ELSE call.applied]_vars

\* a call on a damaged HealthSystem was blocked
C13_Witness ==
    /\ Len(calls) = 2
    /\ calls[2].obj = "hs" /\ calls[2].op = "takeDamage"
    /\ ~calls[2].applied
    /\ hs.currentHealth < hs.maxHealth
    /\ hs.currentHealth > 0
    /\ now - hs.lastDamageTime < damageImmunityDuration

\* C14: the state dead is terminal: no later update, takeDamage, canAttack or
\* attack call moves a dead zombie to idle, chasing or attacking; on entering
\* dead the body's velocity is zero and its mass is 0.
C14_DeadTerminal ==
    [][/\ zed.state = "dead" => zed'.state = "dead"
       /\ (zed.state # "dead" /\ zed'.state = "dead")
              => (zed'.velocity = Rest /\ zed'.mass = 0)]_vars

\* update() ran on a zombie that had died after it had attacked
C14_Witness ==
    /\ zed.state = "dead"
    /\ zed.mass = 0
    /\ zed.lastAttackTime > 0
    /\ zedLog.op = "update"

\* C15: a zombie's attack on the player happens only with the zombie's state
\* attacking and at least attackCooldown after its lastAttackTime, so two
\* attacks by one zombie are never less than 1500 ms apart.
C15_AttackCooldown ==
    [][frame'.op = "update" =>
          \A j \in 1..Len(zombies) :
              (j <= Len(zombies')
               /\ zombies'[j].lastAttackTime # zombies[j].lastAttackTime)
              => /\ zombies'[j].state = "attacking"
                 /\ zombies'[j].lastAttackTime = now'
                 /\ now' - zombies[j].lastAttackTime >= attackCooldown]_vars

\* the first zombie has attacked for the second time
C15_Witness ==
    /\ frame.op = "update"
    /\ frame.attacks = 1
    /\ zombies[1].lastAttackTime = now
    /\ player.health = player.maxHealth - 2 * attackDamage

\* C16: every zombie the spawn director places lies, at spawn time, at a
\* horizontal distance between 20 and 50 from the player's position, wherever
\* the player is.
C16_SpawnRing ==
    spawn.placed =>
        /\ DistSq(spawn.zombie, spawn.player) >= spawnInnerRadius * spawnInnerRadius
        /\ DistSq(spawn.zombie, spawn.player)
               <= (spawnInnerRadius + spawnRadiusSpread)
                     * (spawnInnerRadius + spawnRadiusSpread)

\* C17: a chasing zombie whose displacement per tick stays below
\* movementThreshold for more than 2000 ms of tick time gets unstuck() on the
\* tick the timeout is exceeded: its horizontal velocity is set to a nonzero
\* direction of magnitude speed * 1.5 and stuckTimer is reset to 0.
C17_Unstuck ==
    [][(/\ zedLog'.op = "update"
        /\ zed.state = "chasing"
        /\ zed.health > 0
        /\ zed.target
        /\ zedLog'.still
        /\ zed.stuckTimer + zedLog'.dt > stuckTimeout)
       => /\ zed'.stuckTimer = 0
          /\ zed'.velocity.heading # <<0, 0>>
          /\ zed'.velocity.tenths = speed * 15]_vars

\* C18: within a session the spawn interval never rises from one tick to the
\* next; only restartGame raises it, and only back to the initial value.
C18_IntervalMonotone ==
    [][/\ ~frame'.restarted => zombieSpawnInterval' <= zombieSpawnInterval
       /\ zombieSpawnInterval' > zombieSpawnInterval
              => zombieSpawnInterval' = initialSpawnInterval]_vars

\* restartGame() found a shortened interval and put the initial one back
C18_Witness ==
    /\ frame.restarted
    /\ frame.raised
    /\ zombieSpawnInterval = initialSpawnInterval

\* C19: no bullet body leaks: every bullet body registered in the world
\* belongs to a bullet that is still in the player's bullets collection.
C19_NoBodyLeak == bulletBodies \subseteq BulletIds(player.bullets)

\* the times at which a bullet of the expiry scenario can have been fired
ExpiryTimes == {Epoch + k * ExpiryFrame : k \in 0..MaxExpiryFrames}

\* the bullet fired at time t is in the collection and meets an expiry
\* condition of shouldRemove()
Expired(t) ==
    \E k \in 1..Len(player.bullets) :
        /\ player.bullets[k].createTime = t
        /\ Bullet_shouldRemove(player.bullets[k], now)

\* the bullet fired at time t is out of the collection and its body out of the world
Removed(t) ==
    /\ t \notin BulletIds(player.bullets)
    /\ t \notin bulletBodies

\* the session has at least two more frames to come
ExpiryCutoff == Epoch + ExpiryHorizon - 2 * ExpiryFrame

C21_NoDeadAfterUpdate ==
    frame.op = "update" =>
        \A j \in 1..Len(zombies) : ~Zombie_isDead(zombies[j])

\* C22: when a bullet's body collides with a zombie's body in the physics step
\* of a tick, the bullet damages that zombie before it is removed: the zombie's
\* health is lower when the tick ends.
C22_ContactDamages ==
    [][(/\ frame'.op = "update"
        /\ \A i \in 1..Len(zombies) : zombies[i].health > 0)
       => \A c \in frame'.contact :
              (c[1] <= Len(player.bullets) /\ c[2] <= Len(zombies))
              => zombies'[c[2]].health < zombies[c[2]].health]_vars

\* C23: the kill count shown at game over never exceeds the number of zombies
\* that died during the session.
C23_KillCountNoOvercount == frame.gameOver => frame.killCount <= kills

\* C24: after a jump is triggered no further jump is triggered on later ticks,
\* even with the jump key held, until the player's body has met the ground again.
C24_NoJumpInAir == ~(hop.jumped /\ hop.midAir)

\* C25: a live zombie whose target reference is null when update(deltaTime)
\* runs degrades to idle: after that update its state is idle whatever state
\* it was in before.
C25_NoTargetIdle ==
    [][(zedLog'.op = "update" /\ ~zed.target /\ zed.health > 0)
       => zed'.state = "idle"]_vars

\* C26: reset() restores the freshly constructed state (currentHealth =
\* maxHealth, immunity timer cleared), and the takeDamage call that follows a
\* reset is applied, also when the reset came inside an immunity window.
C26_ResetFresh ==
    /\ (Len(calls) >= 1 /\ calls[Len(calls)].op = "reset")
           => hs = HealthSystem_new(hs.maxHealth)
    /\ (/\ Len(calls) = 2
        /\ calls[1].op = "reset"
        /\ calls[2].obj = "hs" /\ calls[2].op = "takeDamage")
           => /\ calls[2].applied
              /\ calls[2].health = Max(0, hs.maxHealth - calls[2].amount)

\* a reset inside the immunity window, and the takeDamage(10) that followed at
\* once was applied
C26_Witness ==
    /\ Len(calls) = 2
    /\ calls[1].op = "reset" /\ calls[1].hsImmune
    /\ calls[2].obj = "hs" /\ calls[2].op = "takeDamage"
    /\ calls[2].time = calls[1].time
    /\ calls[2].applied
    /\ hs.currentHealth = hs.maxHealth - attackDamage

\* the square of the horizontal (x, z) length of an offset
HorizontalSq(offset) == offset[1] * offset[1] + offset[3] * offset[3]

\* C27: at an AI evaluation of a live zombie with a target the decision
\* depends on the horizontal distance only: chasing with velocity of magnitude
\* speed towards the target iff the horizontal distance is over attackRange,
\* otherwise attacking with zero horizontal velocity, whatever the vertical
\* offset.
C27_HorizontalDecision ==
    [][(/\ zedLog'.op = "update"
        /\ zed.health > 0
        /\ zed.target
        /\ ~zedLog'.still
        /\ zed.pathfindingTimer + zedLog'.dt >= pathfindingInterval)
       => IF HorizontalSq(zedLog'.offset) > (attackRange * 10) * (attackRange * 10)
          THEN /\ zed'.state = "chasing"
               /\ zed'.velocity = [heading |-> TowardsTarget, tenths |-> speed * 10]
          ELSE /\ zed'.state = "attacking"
               /\ zed'.velocity = Rest]_vars

\* C28: whenever a zombie's attack() records lastAttackTime, the player's
\* health was reduced by attackDamage in that attack: over a tick the player
\* loses attackDamage for every attack() call made.
C28_AttackDamages ==
    [][frame'.op = "update"
       => player.health - player'.health = attackDamage * frame'.attacks]_vars

\* how many update() calls the last handler made on the zombie that was at
\* index j when the handler began
UpdateCalls(j) == Cardinality({i \in 1..Len(frame.visits) : frame.visits[i] = j})

\* C29: in every running tick each zombie that is in the collection and alive
\* when the tick begins receives exactly one update(deltaTime) call, also in
\* ticks in which other zombies are pruned.
C29_EveryZombieUpdated ==
    [][frame'.op = "update"
       => \A j \in 1..Len(zombies) :
              (zombies[j].health > 0 /\ ~Zombie_isDead(zombies[j]))
              => UpdateCalls(j)' = 1]_vars

\* the zombie the spawn director added in the last tick is the last of the
\* collection
Newcomer == Len(zombies)

C31_ContactJump ==
    (hop.contact /\ hop.jumpKey)
        => (hop.jumped /\ hop.vy = jumpForce * 1000)

\* C32: a physics contact marks a bullet for removal only when the other body's
\* category is one the projectile accepts (ground, zombie, building,
\* vegetation); touching another bullet or the player's body marks nothing: a
\* bullet that touched only such bodies and has not met an expiry condition is
\* still in the collection when the tick ends.
C32_OnlyAcceptedMark ==
    [][frame'.op = "update" =>
          \A k \in 1..Len(player.bullets) :
              (/\ \E t \in frame'.touch : t[1] = k
               /\ \A t \in frame'.touch : t[1] = k => t[2] \notin ProjectileMask
               /\ ~Bullet_shouldRemove(player.bullets[k], now'))
                  => player.bullets[k].createTime \in BulletIds(player'.bullets)]_vars

\* C33: on a tick in which the spawn timer reaches the interval at most one
\* zombie is added (none when the population is full), the timer is reset to 0
\* and the interval drops by 50 ms when it is above 1000 ms, whether or not a
\* zombie was spawned; on every other tick the director adds no zombie and
\* leaves the interval alone.
C33_SpawnTick ==
    [][frame'.op = "update" =>
          IF zombieSpawnTimer + (now' - now) >= zombieSpawnInterval
          THEN /\ frame'.spawned =
                      (IF Len(zombies') - frame'.spawned < maxZombies THEN 1 ELSE 0)
               /\ zombieSpawnTimer' = 0
               /\ zombieSpawnInterval' =
                      (IF zombieSpawnInterval > 1000
                       THEN zombieSpawnInterval - 50
                       ELSE zombieSpawnInterval)
          ELSE /\ frame'.spawned = 0
               /\ zombieSpawnTimer' = zombieSpawnTimer + (now' - now)
               /\ zombieSpawnInterval' = zombieSpawnInterval]_vars

\* the timer fired with the population full: no zombie was added, the timer
\* was reset and the interval shortened
C33_Witness ==
    /\ frame.op = "update"
    /\ frame.spawnDue
    /\ frame.spawned = 0
    /\ frame.escalated
    /\ Len(zombies) = maxZombies
    /\ zombieSpawnTimer = 0

\* the names a zombie of the pruning scenario can have
TagIds ==
    {<<Epoch + f * ExpiryFrame, k>> : f \in 0..MaxExpiryFrames, k \in 1..initialZombies}

\* how many times removeFromScene() ran on the zombie named id
TimesGone(id) == Cardinality({i \in 1..Len(tags.gone) : tags.gone[i] = id})

\* the zombie named id is in the collection, dead
DeadInCollection(id) ==
    \E j \in 1..Len(zombies) : tags.ids[j] = id /\ Zombie_isDead(zombies[j])

\* the zombie named id is out of the collection
Pruned(id) == \A j \in 1..Len(tags.ids) : tags.ids[j] # id

\* C34: while the session keeps ticking, every zombie that enters state dead is
\* eventually out of the collection, and removeFromScene() (which deregisters
\* its body) runs on it exactly once: never while it stays in the collection,
\* once when it leaves; also when several zombies are dead in the same tick.
C34_DeadPruned ==
    /\ [](/\ Len(tags.ids) = Len(zombies)
          /\ \A id \in TagIds :
                 /\ TimesGone(id) <= 1
                 /\ TimesGone(id) = 1 => Pruned(id))
    /\ \A id \in TagIds :
           (gameRunning /\ now <= ExpiryCutoff /\ DeadInCollection(id))
               ~> (Pruned(id) /\ TimesGone(id) = 1)

\* two zombies were dead when the tick began: the loop pruned the first and
\* passed over the second, which is still in the collection
C34_Witness ==
    /\ frame.op = "update"
    /\ frame.died = 0
    /\ Len(frame.pruned) = 1
    /\ Len(tags.gone) = 1
    /\ Len(zombies) >= 1
    /\ Zombie_isDead(zombies[1])

\* C35: die() runs at most once on a zombie: a zombie that is dead and not yet
\* pruned is not damaged to death again by handleBulletCollisions.
C35_DieOnce ==
    frame.op = "update" =>
        \A i \in 1..Len(frame.dies) : frame.dies[i] # "dead"

\* C36: a zombie whose health is 0 never damages the player: the melee pass
\* calls player.takeDamage only on behalf of zombies with health > 0, also in
\* the tick in which the zombie was killed.
C36_NoPosthumousAttack ==
    frame.op = "update" =>
        \A i \in 1..Len(frame.attackers) : frame.attackers[i] > 0

\* the first zombie, attacking and next to the player with its cooldown over,
\* was killed by a bullet in the tick, and the melee pass passed it by
C36_Witness ==
    /\ frame.op = "update"
    /\ frame.dies = <<"attacking">>
    /\ 1 \in frame.near
    /\ Len(zombies) >= 1
    /\ zombies[1].health = 0
    /\ now - zombies[1].lastAttackTime >= attackCooldown
    /\ frame.attacks = 0

\* C37: the player never fires while dead: shoot() runs only in a running
\* tick, and only with the player's health above 0.
C37_NoFireWhenDead ==
    [][frame'.shots > 0 => (frame'.op = "update" /\ player.health > 0)]_vars

\* a frame came with the fire button held and the player dead: no shot
C37_Witness ==
    /\ frame.op = "frozen"
    /\ frame.fireHeld
    /\ frame.shots = 0
    /\ player.health = 0

\* C38: unstuck() is applied only to zombies that are trying to move: a zombie
\* in state attacking never carries the velocity unstuck() gives (speed * 1.5),
\* however long it stands in place.
C38_AttackingNotUnstuck ==
    zed.state = "attacking" => zed.velocity.tenths # speed * 15

\* C39: the three HealthSystem classes are observationally equivalent: given
\* the same takeDamage, heal and reset calls at the same times they return the
\* same takeDamage results and hold the same currentHealth and lastDamageTime
\* after every call.
C39_Equivalent ==
    /\ twins.results[1] = twins.results[2]
    /\ twins.results[2] = twins.results[3]
    /\ twins.part001.currentHealth = hs.currentHealth
    /\ twins.utils.currentHealth = hs.currentHealth
    /\ twins.part001.lastDamageTime = hs.lastDamageTime
    /\ twins.utils.lastDamageTime = hs.lastDamageTime

\* a takeDamage made exactly when the immunity window closes was applied by
\* all three, after an earlier applied hit
C39_Witness ==
    /\ twins.op = "takeDamage"
    /\ twins.results = <<TRUE, TRUE, TRUE>>
    /\ hs.lastDamageTime = now
    /\ now = Epoch + damageImmunityDuration
    /\ hs.currentHealth = defaultMaxHealth - 2 * attackDamage

====
